---- MODULE Spec2Model ----
(***************************************************************************)
(* Model of frontend/script.js: the query console of the Crop project.     *)
(*                                                                         *)
(* The file registers two click listeners on the same button (lines 8-61   *)
(* and lines 75-131).  Both registrations are modelled, in the order of    *)
(* the file: one click runs the synchronous prefix of listener 1, then the *)
(* synchronous prefix of listener 2, and each listener that passes the     *)
(* validation has its own fetch in flight afterwards.                      *)
(* The const declarations of lines 1-6 are repeated at lines 63-68 (which   *)
(* a browser loading the file as one script rejects); they name the same   *)
(* elements and are modelled once.  The page markup is not part of the     *)
(* source: the output container is taken to start hidden and the regions   *)
(* empty.                                                                  *)
(*                                                                         *)
(* Text is modelled as a sequence of tokens (textContent "" is << >>); a   *)
(* template literal is the concatenation of its pieces.  The non-ASCII     *)
(* characters of the source are written as the tokens ErrorIndicator       *)
(* (U+274C and a space) and Hourglass (U+23F3 and a space).  The           *)
(* whitespace between the tags of the table template is left out.          *)
(*                                                                         *)
(* A run is suspended at await fetch(...) and, when a response arrives, at *)
(* await res.json().  Nothing is read or written between the two, so the   *)
(* two resumptions of a run are taken as one step.                         *)
(***************************************************************************)
EXTENDS Naturals, Sequences, FiniteSets, TLC

VARIABLES origin, API_URL, display, answerEl, sqlEl, tableEl,
          alerts, clicks, accepted, runs, overlapped, last

vars == <<origin, API_URL, display, answerEl, sqlEl, tableEl,
          alerts, clicks, accepted, runs, overlapped, last>>

\* Number of clicks on the button explored (accepted and rejected together).
MaxClicks == 2

(***************************************************************************)
(* JavaScript values that the handlers test and interpolate.               *)
(***************************************************************************)
Undefined == [t |-> "undefined", v |-> << >>]

Str(s) == [t |-> "string", v |-> s]

Arr(s) == [t |-> "array", v |-> s]

\* ToBoolean: undefined and "" are falsy, a non-empty string and any array
\* are truthy.
Truthy(x) == \/ x.t = "array"
             \/ x.t = "string" /\ x.v # << >>

\* a || b
JsOr(a, b) == IF Truthy(a) THEN a ELSE b

\* ${x} and textContent = x: undefined prints as the text "undefined".
ToText(x) == IF x.t = "undefined" THEN <<"undefined">> ELSE x.v

(***************************************************************************)
(* String.prototype.trim on a sequence of characters.                      *)
(***************************************************************************)
WhiteSpace == {" ", "\t", "\n"}

RECURSIVE TrimStart(_)
TrimStart(s) == IF s # << >> /\ Head(s) \in WhiteSpace
                THEN TrimStart(Tail(s)) ELSE s

RECURSIVE TrimEnd(_)
TrimEnd(s) == IF s # << >> /\ s[Len(s)] \in WhiteSpace
              THEN TrimEnd(SubSeq(s, 1, Len(s) - 1)) ELSE s

\* Faulty variant of trim: the input's value is used as typed.
trimNone(s) == s

trim(s) == TrimEnd(TrimStart(s))

\* The values of the question input that a click may find.
Questions == { << >>, <<" ">>, <<"\t", " ">>, <<"q">>, <<" ", "q", "\n">> }

(***************************************************************************)
(* Endpoint resolution.                                                    *)
(***************************************************************************)
\* window.location.origin, as a sequence of pieces.
Origins == { <<"http://", "localhost", ":5500">>,
             <<"https://", "crop-dcdl.", "onrender.com">> }

\* s.includes(piece)
includes(s, piece) == \E i \in 1..Len(s) : s[i] = piece

LocalUrl == <<"http://", "127.0.0.1", ":8000", "/ask">>

ResolveApiUrl(o) == IF includes(o, "onrender.com")
                    THEN o \o <<"/ask">>
                    ELSE LocalUrl

\* The listeners in registration order, and what differs between them.
Listeners == <<1, 2>>

FetchUrl(l) == IF l = 1 THEN LocalUrl ELSE API_URL

Hourglass == "(hourglass) "

PendingText(l) == IF l = 1 THEN <<"Thinking...">>
                  ELSE <<Hourglass, "Thinking...">>

ErrorIndicator == "(x) "

(***************************************************************************)
(* Response bodies as they arrive, and res.json().                         *)
(*                                                                         *)
(* A JSON object on the wire is a sequence of <<key, value>> pairs in the  *)
(* order the backend wrote them.  JSON.parse builds an ordinary object, so *)
(* Object.keys lists the keys that are array indices first, in ascending   *)
(* numeric order, and the other keys after them in the order received.     *)
(***************************************************************************)
IndexKeys == {"2019", "2020"}

IndexValue(k) == IF k = "2019" THEN 2019 ELSE 2020

IsIndexProp(p) == p[1] \in IndexKeys

IsNamedProp(p) == p[1] \notin IndexKeys

RECURSIVE SortProps(_)
SortProps(ps) ==
  IF ps = << >> THEN << >>
  ELSE LET m == CHOOSE i \in 1..Len(ps) :
                  \A j \in 1..Len(ps) : IndexValue(ps[i][1]) <= IndexValue(ps[j][1])
           rest == [j \in 1..(Len(ps) - 1) |-> IF j < m THEN ps[j] ELSE ps[j + 1]]
       IN  <<ps[m]>> \o SortProps(rest)

\* The object JSON.parse builds from a wire object: its own properties in
\* enumeration order.
ParseObject(w) == SortProps(SelectSeq(w, IsIndexProp)) \o SelectSeq(w, IsNamedProp)

\* Object.keys(o)
ObjectKeys(o) == [i \in 1..Len(o) |-> o[i][1]]

\* o[k]: the value of property k, undefined when o has no such property.
Get(o, k) == IF \E i \in 1..Len(o) : o[i][1] = k
             THEN Str(<<o[CHOOSE i \in 1..Len(o) : o[i][1] = k][2]>>)
             ELSE Undefined

RowXY == << <<"x", "1">>, <<"y", "2">> >>

RowYZ == << <<"y", "3">>, <<"z", "9">> >>

RowGoa == << <<"state", "Goa">>, <<"2020", "5">>, <<"2019", "4">> >>

RowKerala == << <<"state", "Kerala">>, <<"2019", "7">> >>

\* A response body: text that is not JSON, the JSON value null, or a JSON
\* object with the fields the handlers read.
Body(j, a, s, r, d, e) ==
  [json |-> j, answer |-> a, sql |-> s, rows |-> r, detail |-> d, error |-> e]

InvalidBody == Body("invalid", Undefined, Undefined, Undefined, Undefined, Undefined)

NullBody == Body("null", Undefined, Undefined, Undefined, Undefined, Undefined)

OkBody(a, s, r) == Body("object", a, s, r, Undefined, Undefined)

\* Bodies of responses with a success status.
OkBodies ==
  { InvalidBody, NullBody,
    OkBody(Undefined, Undefined, Undefined),
    OkBody(Str(<< >>), Str(<<"S">>), Arr(<< >>)),
    OkBody(Str(<<"A">>), Str(<<"S">>), Arr(<<RowXY>>)),
    OkBody(Str(<<"A">>), Undefined, Arr(<<RowXY, RowYZ>>)),
    OkBody(Str(<<"A">>), Str(<<"S">>), Arr(<<RowGoa, RowKerala>>)) }

\* Bodies of responses with a non-success status.
ErrBody(d, e) == Body("object", Undefined, Undefined, Undefined, d, e)

ErrBodies ==
  { InvalidBody, NullBody,
    ErrBody(Undefined, Undefined),
    ErrBody(Str(<<"db down">>), Undefined),
    ErrBody(Undefined, Str(<<"bad question">>)),
    ErrBody(Str(<<"db down">>), Str(<<"bad question">>)),
    ErrBody(Str(<< >>), Str(<<"bad question">>)) }

\* The rows of a parsed body: every record parsed into an object.
ParsedRows(r) == IF r.t = "array"
                 THEN Arr([i \in 1..Len(r.v) |-> ParseObject(r.v[i])])
                 ELSE r

\* res.json() of a body that is a JSON object.
JsonParse(b) == [b EXCEPT !.rows = ParsedRows(b.rows)]

\* The message of the error res.json() or the first property read throws.
ParseFailure(b) == IF b.json = "invalid"
                   THEN <<"Unexpected token in JSON">>
                   ELSE <<"Cannot read properties of null">>

Statuses == {200, 404, 500}

\* res.ok
ok(status) == status >= 200 /\ status <= 299

\* err.message of the TypeError a failed fetch rejects with; browsers word
\* it differently, and it may be empty.
TransportMessages == { <<"Failed to fetch">>, << >> }

(***************************************************************************)
(* What the handlers compute.                                              *)
(***************************************************************************)
\* Faulty variant of ErrMsg: the error field is preferred to detail.
ErrMsgErrorFirst(status, b) ==
  LET errMsg == <<"HTTP ", ToString(status)>>
  IN  IF b.json = "object" /\ (Truthy(b.detail) \/ Truthy(b.error))
      THEN errMsg \o <<" - ">> \o ToText(JsOr(b.error, b.detail))
      ELSE errMsg

\* errMsg of the !res.ok branch.
ErrMsg(status, b) ==
  LET errMsg == <<"HTTP ", ToString(status)>>
  IN  IF b.json = "object" /\ (Truthy(b.detail) \/ Truthy(b.error))
      THEN errMsg \o <<" - ">> \o ToText(JsOr(b.detail, b.error))
      ELSE errMsg

\* Faulty variant of CatchText: the fixed message is shown whatever the
\* error says.
CatchTextGeneric(m) == <<ErrorIndicator, "Error connecting to backend.">>

\* The text the catch block writes for an error with message m.
CatchText(m) ==
  <<ErrorIndicator>> \o ToText(JsOr(Str(m), Str(<<"Error connecting to backend.">>)))

\* Faulty variant of AnswerText: no placeholder for a missing answer.
AnswerTextRaw(data) == IF data.answer.t = "undefined" THEN << >> ELSE data.answer.v

AnswerText(data) == ToText(JsOr(data.answer, Str(<<"(no summary)">>)))

\* Faulty variant of SqlText: no placeholder for a missing sql.
SqlTextRaw(data) == IF data.sql.t = "undefined" THEN << >> ELSE data.sql.v

SqlText(data) == ToText(JsOr(data.sql, Str(<<"(no SQL returned)">>)))

\* data.rows && data.rows.length > 0
HasRows(data) == Truthy(data.rows) /\ Len(data.rows.v) > 0

\* pieces.join("")
RECURSIVE Join(_)
Join(pieces) == IF pieces = << >> THEN << >>
                ELSE Head(pieces) \o Join(Tail(pieces))

Th(h) == <<"<th>", h, "</th>">>

\* Faulty variant of Td: a key the record lacks leaves the cell empty.
TdEmptyMissing(r, h) ==
  <<"<td>">> \o (IF Get(r, h).t = "undefined" THEN << >> ELSE Get(r, h).v) \o <<"</td>">>

Td(r, h) == <<"<td>">> \o ToText(Get(r, h)) \o <<"</td>">>

Tr(r, headers) ==
  <<"<tr>">> \o Join([j \in 1..Len(headers) |-> Td(r, headers[j])]) \o <<"</tr>">>

\* tableHTML
TableHTML(rows) ==
  LET headers == ObjectKeys(rows[1])
  IN  <<"<table>", "<thead>", "<tr>">>
      \o Join([j \in 1..Len(headers) |-> Th(headers[j])])
      \o <<"</tr>", "</thead>", "<tbody>">>
      \o Join([i \in 1..Len(rows) |-> Tr(rows[i], headers)])
      \o <<"</tbody>", "</table>">>

NoDataHTML == <<"<p>", "No data found.", "</p>">>

\* Faulty variant of TableMarkup: nothing is shown when there are no rows.
TableMarkupBlank(data) == IF HasRows(data) THEN TableHTML(data.rows.v) ELSE << >>

TableMarkup(data) == IF HasRows(data) THEN TableHTML(data.rows.v) ELSE NoDataHTML

(***************************************************************************)
(* State.                                                                  *)
(*   origin, API_URL   the page origin and the endpoint computed from it   *)
(*   display           output.style.display                                *)
(*   answerEl, sqlEl   textContent of the two text regions                 *)
(*   tableEl           innerHTML of the table region                       *)
(*   alerts            number of alert() notices shown so far              *)
(*   clicks, accepted  clicks so far, and those that passed validation     *)
(*   runs              one entry per listener run that issued its fetch:   *)
(*                     the request and the position of the run             *)
(*                     ("fetch": suspended, "done": returned)              *)
(*   overlapped        some click was accepted while a run was in flight   *)
(*   last              the most recent step and what it received: the      *)
(*                     kind of step, the accepted click it belongs to, the *)
(*                     status and body of the response, and in msg the     *)
(*                     error's message (for a click, the input's value)    *)
(***************************************************************************)
NoBody == Body("none", Undefined, Undefined, Undefined, Undefined, Undefined)

Event(kind, act, status, body, msg) ==
  [kind |-> kind, act |-> act, status |-> status, body |-> body, msg |-> msg]

\* The kinds of step in which a request resolves.
ResolutionKinds == {"ok", "transport", "http", "parse"}

FailureKinds == {"transport", "http", "parse"}

\* The run listener l starts for the act-th accepted click: the POST it
\* issues and its position, suspended at await fetch(...).
NewRun(l, act, question) ==
  [listener |-> l, act |-> act, method |-> "POST", url |-> FetchUrl(l),
   body |-> question, pc |-> "fetch"]

InFlight(i) == runs[i].pc # "done"

Init ==
  /\ origin \in Origins
  /\ API_URL = ResolveApiUrl(origin)
  /\ display = "none"
  /\ answerEl = << >>
  /\ sqlEl = << >>
  /\ tableEl = << >>
  /\ alerts = 0
  /\ clicks = 0
  /\ accepted = 0
  /\ runs = << >>
  /\ overlapped = FALSE
  /\ last = Event("load", 0, 0, NoBody, << >>)

\* Faulty variant of Click: the query-text and table regions are not
\* cleared when a question is accepted.
ClickKeepsOutput(q) ==
  /\ clicks < MaxClicks
  /\ clicks' = clicks + 1
  /\ LET question == trim(q)
     IN  IF question = << >>
         THEN /\ alerts' = alerts + Len(Listeners)
              /\ last' = Event("alert", 0, 0, NoBody, q)
              /\ UNCHANGED <<display, answerEl, sqlEl, tableEl, accepted, runs, overlapped>>
         ELSE /\ display' = "block"
              /\ answerEl' = PendingText(Listeners[Len(Listeners)])
              /\ accepted' = accepted + 1
              /\ runs' = runs \o [k \in 1..Len(Listeners) |->
                                    NewRun(Listeners[k], accepted + 1, question)]
              /\ overlapped' = (overlapped \/ \E i \in 1..Len(runs) : InFlight(i))
              /\ last' = Event("click", accepted + 1, 0, NoBody, q)
              /\ UNCHANGED <<alerts, sqlEl, tableEl>>
  /\ UNCHANGED <<origin, API_URL>>

\* Faulty variant of Click: the pending state is shown before the question
\* is validated.
ClickShowsPendingFirst(q) ==
  /\ clicks < MaxClicks
  /\ clicks' = clicks + 1
  /\ display' = "block"
  /\ answerEl' = PendingText(Listeners[Len(Listeners)])
  /\ sqlEl' = << >>
  /\ tableEl' = << >>
  /\ LET question == trim(q)
     IN  IF question = << >>
         THEN /\ alerts' = alerts + Len(Listeners)
              /\ last' = Event("alert", 0, 0, NoBody, q)
              /\ UNCHANGED <<accepted, runs, overlapped>>
         ELSE /\ accepted' = accepted + 1
              /\ runs' = runs \o [k \in 1..Len(Listeners) |->
                                    NewRun(Listeners[k], accepted + 1, question)]
              /\ overlapped' = (overlapped \/ \E i \in 1..Len(runs) : InFlight(i))
              /\ last' = Event("click", accepted + 1, 0, NoBody, q)
              /\ UNCHANGED alerts
  /\ UNCHANGED <<origin, API_URL>>

\* A click on askBtn while the input holds q: both listeners run up to
\* their return or their await fetch(...), listener 1 first.
Click(q) ==
  /\ clicks < MaxClicks
  /\ clicks' = clicks + 1
  /\ LET question == trim(q)
     IN  IF question = << >>
         THEN /\ alerts' = alerts + Len(Listeners)
              /\ last' = Event("alert", 0, 0, NoBody, q)
              /\ UNCHANGED <<display, answerEl, sqlEl, tableEl, accepted, runs, overlapped>>
         ELSE /\ display' = "block"
              /\ answerEl' = PendingText(Listeners[Len(Listeners)])
              /\ sqlEl' = << >>
              /\ tableEl' = << >>
              /\ accepted' = accepted + 1
              /\ runs' = runs \o [k \in 1..Len(Listeners) |->
                                    NewRun(Listeners[k], accepted + 1, question)]
              /\ overlapped' = (overlapped \/ \E i \in 1..Len(runs) : InFlight(i))
              /\ last' = Event("click", accepted + 1, 0, NoBody, q)
              /\ UNCHANGED alerts
  /\ UNCHANGED <<origin, API_URL>>

\* Faulty variant of FetchFails: the catch block only logs the error.
FetchFailsSilent(i, m) ==
  /\ InFlight(i)
  /\ runs' = [runs EXCEPT ![i].pc = "done"]
  /\ last' = Event("transport", runs[i].act, 0, NoBody, m)
  /\ UNCHANGED <<origin, API_URL, display, answerEl, sqlEl, tableEl, alerts,
                 clicks, accepted, overlapped>>

\* The fetch of run i rejects (no response at all): the catch block runs.
FetchFails(i, m) ==
  /\ InFlight(i)
  /\ answerEl' = CatchText(m)
  /\ runs' = [runs EXCEPT ![i].pc = "done"]
  /\ last' = Event("transport", runs[i].act, 0, NoBody, m)
  /\ UNCHANGED <<origin, API_URL, display, sqlEl, tableEl, alerts, clicks,
                 accepted, overlapped>>

\* Faulty variant of RespondsError: the catch block also empties the
\* query-text and table regions.
RespondsErrorClears(i, status, b) ==
  /\ InFlight(i)
  /\ ~ok(status)
  /\ answerEl' = CatchText(ErrMsg(status, b))
  /\ sqlEl' = << >>
  /\ tableEl' = << >>
  /\ runs' = [runs EXCEPT ![i].pc = "done"]
  /\ last' = Event("http", runs[i].act, status, b, << >>)
  /\ UNCHANGED <<origin, API_URL, display, alerts, clicks, accepted, overlapped>>

\* The fetch of run i resolves with a non-success status and res.json() of
\* the error body b settles (its rejection is swallowed): errMsg is thrown
\* and the catch block runs.
RespondsError(i, status, b) ==
  /\ InFlight(i)
  /\ ~ok(status)
  /\ answerEl' = CatchText(ErrMsg(status, b))
  /\ runs' = [runs EXCEPT ![i].pc = "done"]
  /\ last' = Event("http", runs[i].act, status, b, << >>)
  /\ UNCHANGED <<origin, API_URL, display, sqlEl, tableEl, alerts, clicks,
                 accepted, overlapped>>

\* Faulty variant of RespondsOk: a response is applied only when it belongs
\* to the latest accepted click.
RespondsOkLatestOnly(i, status, b) ==
  /\ InFlight(i)
  /\ ok(status)
  /\ runs' = [runs EXCEPT ![i].pc = "done"]
  /\ IF b.json = "object"
     THEN /\ last' = Event("ok", runs[i].act, status, b, << >>)
          /\ IF runs[i].act = accepted
             THEN /\ answerEl' = AnswerText(JsonParse(b))
                  /\ sqlEl' = SqlText(JsonParse(b))
                  /\ tableEl' = TableMarkup(JsonParse(b))
             ELSE UNCHANGED <<answerEl, sqlEl, tableEl>>
     ELSE /\ answerEl' = CatchText(ParseFailure(b))
          /\ last' = Event("parse", runs[i].act, status, b, ParseFailure(b))
          /\ UNCHANGED <<sqlEl, tableEl>>
  /\ UNCHANGED <<origin, API_URL, display, alerts, clicks, accepted, overlapped>>

\* The fetch of run i resolves with a success status and res.json() of the
\* body b settles: the body is rendered, or the catch block runs when it
\* cannot be read.
RespondsOk(i, status, b) ==
  /\ InFlight(i)
  /\ ok(status)
  /\ runs' = [runs EXCEPT ![i].pc = "done"]
  /\ IF b.json = "object"
     THEN LET data == JsonParse(b)
          IN  /\ answerEl' = AnswerText(data)
              /\ sqlEl' = SqlText(data)
              /\ tableEl' = TableMarkup(data)
              /\ last' = Event("ok", runs[i].act, status, b, << >>)
     ELSE /\ answerEl' = CatchText(ParseFailure(b))
          /\ last' = Event("parse", runs[i].act, status, b, ParseFailure(b))
          /\ UNCHANGED <<sqlEl, tableEl>>
  /\ UNCHANGED <<origin, API_URL, display, alerts, clicks, accepted, overlapped>>

Next ==
  \/ \E q \in Questions : Click(q)
  \/ \E i \in 1..Len(runs), m \in TransportMessages : FetchFails(i, m)
  \/ \E i \in 1..Len(runs), status \in Statuses, b \in ErrBodies :
       RespondsError(i, status, b)
  \/ \E i \in 1..Len(runs), status \in Statuses, b \in OkBodies :
       RespondsOk(i, status, b)

Spec == Init /\ [][Next]_vars

\* Some suspended run resumes: its request resolves, one way or another.
Resolve ==
  \/ \E i \in 1..Len(runs), m \in TransportMessages : FetchFails(i, m)
  \/ \E i \in 1..Len(runs), status \in Statuses, b \in ErrBodies :
       RespondsError(i, status, b)
  \/ \E i \in 1..Len(runs), status \in Statuses, b \in OkBodies :
       RespondsOk(i, status, b)

\* The page when every issued request eventually resolves.
FairSpec == Spec /\ WF_vars(Resolve)

AllResolved == \A i \in 1..Len(runs) : ~InFlight(i)

\* A step in which one run resumes and returns.
Resolution == /\ Len(runs') = Len(runs)
              /\ \E i \in 1..Len(runs) : InFlight(i) /\ runs'[i].pc = "done"

IsBlank(q) == \A i \in 1..Len(q) : q[i] \in WhiteSpace

(***************************************************************************)
(* C1: a click whose question is empty or all whitespace issues no         *)
(* request and shows a blocking notice.                                    *)
(***************************************************************************)
C1_BlankQuestionNoRequest ==
  [][\A q \in Questions :
       (IsBlank(q) /\ Click(q)) => (runs' = runs /\ alerts' > alerts)]_vars

C1_Witness == /\ last.kind = "alert"
              /\ last.msg = <<"\t", " ">>
              /\ alerts > 0
              /\ runs = << >>

(***************************************************************************)
(* C2: the number of POST requests issued equals the number of clicks      *)
(* with a non-empty trimmed question.                                      *)
(***************************************************************************)
C2_OnePostPerActivation == Len(runs) = accepted

\* A field that is present with a non-empty text.
Present(x) == x.t = "string" /\ x.v # << >>

\* s ends with the tokens of t.
EndsWith(s, t) == /\ Len(s) >= Len(t)
                  /\ SubSeq(s, Len(s) - Len(t) + 1, Len(s)) = t

(***************************************************************************)
(* C4: after a response with a non-success status the answer region holds  *)
(* the status code, followed by the detail field of the JSON error body,   *)
(* or else its error field, when one is present; when the body is not JSON *)
(* or carries neither, it holds the status code alone.                     *)
(***************************************************************************)
C4_HttpErrorText ==
  last.kind = "http" =>
    LET b == last.body
        code == ToString(last.status)
        message == IF b.json = "object" /\ Present(b.detail) THEN b.detail.v
                   ELSE IF b.json = "object" /\ Present(b.error) THEN b.error.v
                   ELSE << >>
    IN  /\ includes(answerEl, code)
        /\ message # << >> => /\ EndsWith(answerEl, message)
                              /\ Len(answerEl) > Len(message) + 1
        /\ message = << >> => answerEl = <<ErrorIndicator, "HTTP ", code>>

C4_Witness == /\ last.kind = "http"
              /\ last.status = 500
              /\ last.body.detail = Str(<<"db down">>)
              /\ includes(answerEl, "500")
              /\ includes(answerEl, "db down")

(***************************************************************************)
(* C6: after a successful response the answer region holds the answer      *)
(* field and the query-text region the sql field; a missing answer shows   *)
(* "(no summary)", a missing sql "(no SQL returned)", and neither region   *)
(* is ever empty.                                                          *)
(***************************************************************************)
C6_AnswerAndSqlShown ==
  last.kind = "ok" =>
    LET b == last.body
    IN  /\ Present(b.answer) => answerEl = b.answer.v
        /\ b.answer.t = "undefined" => answerEl = <<"(no summary)">>
        /\ Present(b.sql) => sqlEl = b.sql.v
        /\ b.sql.t = "undefined" => sqlEl = <<"(no SQL returned)">>
        /\ answerEl # << >>
        /\ sqlEl # << >>

C6_Witness == /\ last.kind = "ok"
              /\ last.body.answer = Undefined
              /\ last.body.sql = Undefined
              /\ answerEl = <<"(no summary)">>
              /\ sqlEl = <<"(no SQL returned)">>

(***************************************************************************)
(* C8: after a successful response whose rows field is empty or absent the *)
(* table region holds the "no data" placeholder and no table structure.    *)
(***************************************************************************)
C8_NoDataPlaceholder ==
  (last.kind = "ok" /\ (last.body.rows.t = "undefined" \/ last.body.rows.v = << >>)) =>
    /\ tableEl = <<"<p>", "No data found.", "</p>">>
    /\ ~includes(tableEl, "<table>")

C8_Witness == /\ last.kind = "ok"
              /\ last.body.rows = Arr(<< >>)
              /\ tableEl = <<"<p>", "No data found.", "</p>">>

(***************************************************************************)
(* C9: every request the page issues goes to the endpoint computed at page *)
(* load from the page origin.                                              *)
(***************************************************************************)
C9_AllRequestsToApiUrl == \A i \in 1..Len(runs) : runs[i].url = API_URL

(***************************************************************************)
(* Reading a table back from the markup, by position.                      *)
(***************************************************************************)
\* markup is a table with header texts h and cell texts cells[i][j]: one
\* header row, then one row per entry of cells, each with Len(h) cells.
IsTable(markup, h, cells) ==
  LET n == Len(h)
      m == Len(cells)
      rowAt(i) == 6 + 3 * n + (i - 1) * (3 * n + 2)
  IN  /\ Len(markup) = 8 + 3 * n + m * (3 * n + 2)
      /\ SubSeq(markup, 1, 3) = <<"<table>", "<thead>", "<tr>">>
      /\ \A j \in 1..n :
           SubSeq(markup, 3 * j + 1, 3 * j + 3) = <<"<th>", h[j], "</th>">>
      /\ SubSeq(markup, 3 * n + 4, 3 * n + 6) = <<"</tr>", "</thead>", "<tbody>">>
      /\ \A i \in 1..m :
           /\ markup[rowAt(i) + 1] = "<tr>"
           /\ \A j \in 1..n :
                SubSeq(markup, rowAt(i) + 3 * j - 1, rowAt(i) + 3 * j + 1)
                  = <<"<td>", cells[i][j], "</td>">>
           /\ markup[rowAt(i) + 3 * n + 2] = "</tr>"
      /\ SubSeq(markup, Len(markup) - 1, Len(markup)) = <<"</tbody>", "</table>">>
      /\ Cardinality({p \in 1..Len(markup) : markup[p] = "<thead>"}) = 1
      /\ Cardinality({p \in 1..Len(markup) : markup[p] = "<tr>"}) = m + 1

\* The keys of a record in the order the backend returned them.
WireKeys(w) == [j \in 1..Len(w) |-> w[j][1]]

\* The text shown for key k of the record w as returned.
WireValue(w, k) == IF \E j \in 1..Len(w) : w[j][1] = k
                   THEN w[CHOOSE j \in 1..Len(w) : w[j][1] = k][2]
                   ELSE "undefined"

\* The cells of the records ws under the headers h.
CellsUnder(ws, h) == [i \in 1..Len(ws) |-> [j \in 1..Len(h) |-> WireValue(ws[i], h[j])]]

\* The number of keys of w that come before its j-th key in JavaScript
\* property order: array-index keys in ascending numeric order, then the
\* other keys in the order returned.
Rank(w, j) ==
  IF w[j][1] \in IndexKeys
  THEN Cardinality({i \in 1..Len(w) : /\ w[i][1] \in IndexKeys
                                      /\ IndexValue(w[i][1]) < IndexValue(w[j][1])})
  ELSE Cardinality({i \in 1..Len(w) : w[i][1] \in IndexKeys})
       + Cardinality({i \in 1..Len(w) : i < j /\ w[i][1] \notin IndexKeys})

PropertyOrder(w) ==
  [p \in 1..Len(w) |-> w[CHOOSE j \in 1..Len(w) : Rank(w, j) = p - 1][1]]

RowsShown == last.kind = "ok" /\ last.body.rows.t = "array" /\ last.body.rows.v # << >>

(***************************************************************************)
(* C7 as stated: after a successful response with a non-empty rows, the    *)
(* table holds one header row whose columns are the keys of the first row  *)
(* in the order returned, then one data row per record in order, each with *)
(* one cell per header holding the record's value for that key.            *)
(***************************************************************************)
C7_HeadersInReturnedOrder ==
  RowsShown =>
    LET ws == last.body.rows.v
    IN  IsTable(tableEl, WireKeys(ws[1]), CellsUnder(ws, WireKeys(ws[1])))

(***************************************************************************)
(* C7 as amended: the header columns are the keys of the first row in      *)
(* JavaScript property order (array-index keys first, ascending, then the  *)
(* other keys in the order returned); the rest as stated.                  *)
(***************************************************************************)
C7_HeadersInPropertyOrder ==
  RowsShown =>
    LET ws == last.body.rows.v
    IN  IsTable(tableEl, PropertyOrder(ws[1]), CellsUnder(ws, PropertyOrder(ws[1])))

C7_Witness == /\ RowsShown
              /\ last.body.rows = Arr(<<RowGoa, RowKerala>>)
              /\ SubSeq(tableEl, 4, 6) = <<"<th>", "2019", "</th>">>
              /\ includes(tableEl, "undefined")

\* A step in which a request fails: no response, a non-success status, or
\* a body that cannot be read.
Failure == Resolution /\ last'.kind \in FailureKinds

(***************************************************************************)
(* C3 as stated: after any failure of a request the answer region holds an *)
(* error indicator and a message, and the query-text and table regions are *)
(* empty.                                                                  *)
(***************************************************************************)
C3_FailureLeavesRegionsEmpty ==
  last.kind \in FailureKinds =>
    /\ Len(answerEl) >= 2
    /\ answerEl[1] = ErrorIndicator
    /\ sqlEl = << >>
    /\ tableEl = << >>

(***************************************************************************)
(* C3 as amended: a failure replaces the answer region with the error      *)
(* indicator and the best-available message and writes nothing else: the   *)
(* query-text and table regions, the visibility and the other runs are as  *)
(* they were just before, and the failed run has returned.                 *)
(***************************************************************************)
C3_FailureWritesOnlyAnswer ==
  [][Failure =>
       /\ Len(answerEl') >= 2
       /\ answerEl'[1] = ErrorIndicator
       /\ last'.kind = "parse" => Tail(answerEl') = last'.msg
       /\ last'.kind = "http" =>
            SubSeq(answerEl', 2, 3) = <<"HTTP ", ToString(last'.status)>>
       /\ last'.kind = "transport" /\ last'.msg # << >> =>
            Tail(answerEl') = last'.msg
       /\ sqlEl' = sqlEl
       /\ tableEl' = tableEl
       /\ display' = display
       /\ alerts' = alerts
       /\ Cardinality({i \in 1..Len(runs) : runs'[i] # runs[i]}) = 1
       /\ \A i \in 1..Len(runs) : runs'[i] # runs[i] => runs'[i].pc = "done"]_vars

\* A failure handled while the regions hold another request's rendering.
C3_Witness == /\ last.kind \in FailureKinds
              /\ answerEl[1] = ErrorIndicator
              /\ sqlEl = <<"S">>
              /\ tableEl # << >>

(***************************************************************************)
(* C5 as stated: after a transport-level failure the answer region holds a *)
(* connectivity error message and the query-text and table regions are     *)
(* empty.                                                                  *)
(***************************************************************************)
C5_TransportFailureRegionsEmpty ==
  last.kind = "transport" =>
    /\ answerEl \in { <<ErrorIndicator>> \o m :
                        m \in (TransportMessages \ {<< >>})
                              \cup {<<"Error connecting to backend.">>} }
    /\ sqlEl = << >>
    /\ tableEl = << >>

(***************************************************************************)
(* C5 as amended: a transport-level failure puts in the answer region the  *)
(* error indicator followed by the message of the browser's error, or by   *)
(* "Error connecting to backend." when that message is empty, and leaves   *)
(* the query-text and table regions as they were.                          *)
(***************************************************************************)
C5_TransportFailureMessage ==
  [][(Resolution /\ last'.kind = "transport") =>
       /\ answerEl' = <<ErrorIndicator>> \o
                        (IF last'.msg = << >>
                         THEN <<"Error connecting to backend.">>
                         ELSE last'.msg)
       /\ UNCHANGED <<sqlEl, tableEl>>]_vars

C5_Witness == /\ last.kind = "transport"
              /\ last.msg = <<"Failed to fetch">>
              /\ answerEl = <<ErrorIndicator, "Failed to fetch">>
              /\ sqlEl # << >>

(***************************************************************************)
(* C10 as stated: when two accepted clicks overlap, once every request has *)
(* resolved the answer, query-text and table regions show the response     *)
(* that resolved last (for a failure: the error, and the other two empty). *)
(***************************************************************************)
AnswerShows(e) ==
  IF e.kind = "ok"
  THEN answerEl = (IF Present(e.body.answer) THEN e.body.answer.v ELSE <<"(no summary)">>)
  ELSE answerEl # << >> /\ answerEl[1] = ErrorIndicator

SqlAndTableShow(e) ==
  IF e.kind = "ok"
  THEN /\ sqlEl = (IF Present(e.body.sql) THEN e.body.sql.v ELSE <<"(no SQL returned)">>)
       /\ IF e.body.rows.t = "array" /\ e.body.rows.v # << >>
          THEN IsTable(tableEl, PropertyOrder(e.body.rows.v[1]),
                       CellsUnder(e.body.rows.v, PropertyOrder(e.body.rows.v[1])))
          ELSE tableEl = <<"<p>", "No data found.", "</p>">>
  ELSE sqlEl = << >> /\ tableEl = << >>

BothResolved == overlapped /\ AllResolved /\ last.kind \in ResolutionKinds

C10_OutputShowsLastResponse ==
  BothResolved => AnswerShows(last) /\ SqlAndTableShow(last)

(***************************************************************************)
(* C10 as amended: no request is aborted and each resolution writes on its *)
(* own, a success all three regions and a failure the answer region only;  *)
(* once every request has resolved, the answer region shows the response   *)
(* that resolved last, whichever click it belongs to, and the query-text   *)
(* and table regions show it too when it is a success (after a failure     *)
(* they keep what they held).                                              *)
(***************************************************************************)
C10_LastResolvedWins ==
  /\ [](BothResolved => /\ AnswerShows(last)
                        /\ last.kind = "ok" => SqlAndTableShow(last))
  /\ [][/\ \A i \in 1..Len(runs) :
             /\ Len(runs') >= Len(runs)
             /\ runs'[i].pc \in {"fetch", "done"}
             /\ (runs'[i] # runs[i]) => (Resolution /\ last'.act = runs[i].act)
        /\ Failure => UNCHANGED <<sqlEl, tableEl>>]_vars

\* The response of the earlier click resolved last and is what is shown.
C10_Witness == /\ BothResolved
               /\ last.kind = "ok"
               /\ last.act < accepted
               /\ answerEl = <<"A">>
               /\ sqlEl = <<"S">>

\* The answer region shows a pending placeholder.
Pending == answerEl \in {<<"Thinking...">>, <<Hourglass, "Thinking...">>}

(***************************************************************************)
(* C11: when a click with a non-empty trimmed question has run, and so as  *)
(* its requests are issued, the display container is visible, the answer   *)
(* region shows the pending placeholder and the query-text and table       *)
(* regions are empty.                                                      *)
(***************************************************************************)
C11_PendingStateAtRequest ==
  last.kind = "click" =>
    /\ display = "block"
    /\ Pending
    /\ sqlEl = << >>
    /\ tableEl = << >>
    /\ \E i \in 1..Len(runs) : runs[i].act = accepted
    /\ \A i \in 1..Len(runs) : runs[i].act = accepted => InFlight(i)

\* A second question accepted after a request of the first has resolved.
C11_Witness == /\ last.kind = "click"
               /\ accepted = 2
               /\ \E i \in 1..Len(runs) : ~InFlight(i)
               /\ Pending
               /\ tableEl = << >>

(***************************************************************************)
(* C12: whenever at least one request has been issued and none is in       *)
(* flight, the answer region shows a result or an error message and not    *)
(* the pending placeholder.  The answer region is pending only while a     *)
(* request is in flight, and every resolution of a request leaves it not   *)
(* pending: so when every issued request resolves, the pending state ends. *)
(***************************************************************************)
C12_PendingIsTransient ==
  /\ []((Len(runs) >= 1 /\ AllResolved) =>
          /\ ~Pending
          /\ answerEl # << >>
          /\ last.kind \in FailureKinds => answerEl[1] = ErrorIndicator)
  /\ [](Pending => \E i \in 1..Len(runs) : InFlight(i))
  /\ [][Resolution => ~Pending']_vars

(***************************************************************************)
(* C12, the conclusion itself, under FairSpec (every issued request        *)
(* eventually resolves): a pending answer region eventually stops being    *)
(* pending.                                                                *)
(***************************************************************************)
C12_EventuallyNotPending == Pending ~> ~Pending

C12_Witness == /\ Len(runs) >= 1
               /\ AllResolved
               /\ last.kind = "transport"
               /\ answerEl = <<ErrorIndicator, "Error connecting to backend.">>

(***************************************************************************)
(* C13: a click rejected for an empty or all-whitespace question leaves    *)
(* the visibility of the display container and the answer, query-text and  *)
(* table regions exactly as they were.                                     *)
(***************************************************************************)
C13_RejectedClickKeepsDisplay ==
  [][\A q \in Questions :
       (IsBlank(q) /\ Click(q)) =>
         UNCHANGED <<display, answerEl, sqlEl, tableEl, runs>>]_vars

\* A rejected click while the result of an earlier request is shown and
\* another request is still in flight.
C13_Witness == /\ last.kind = "alert"
               /\ display = "block"
               /\ tableEl # << >>
               /\ \E i \in 1..Len(runs) : InFlight(i)

(***************************************************************************)
(* C14: in every reachable state the table region is non-empty only if the *)
(* query-text region is non-empty and the display container is visible.    *)
(***************************************************************************)
C14_TableImpliesSqlAndVisible ==
  tableEl # << >> => (sqlEl # << >> /\ display = "block")

\* A table shown between the resolutions of overlapping requests.
C14_Witness == /\ tableEl # << >>
               /\ sqlEl = <<"(no SQL returned)">>
               /\ overlapped
               /\ \E i \in 1..Len(runs) : InFlight(i)

====
